---- MODULE Spec2Model ----
(***************************************************************************)
(* The snark endpoint: context aggregation from the task store (Notion),   *)
(* context formatting, remark generation (remote with retries, or inline   *)
(* with canned fallbacks) and the request handler, for every variant of    *)
(* api/snark.js kept in the repository.                                    *)
(*                                                                         *)
(* One behaviour is one request.  A step runs the handler from one await   *)
(* point to the next, as the JavaScript event loop does: the settling of   *)
(* the awaited promise (the input of the step) and all synchronous code    *)
(* up to the next await, or to the end of the handler.                     *)
(***************************************************************************)
EXTENDS Naturals, Sequences, FiniteSets, TLC

VARIABLES
    req,      \* the request: handler variant, ?debug=1
    env,      \* process.env: Notion credentials, API key, class map
    pc,       \* the await point the handler is suspended at
    timer,    \* whether a withTimeout timer races the awaited promise
    queries,  \* task-store queries issued so far, in order (0: done count, i: mapping i)
    agg,      \* the aggregator's locals and what it returned
    context,  \* the formatted context text
    gen,      \* the generation call: loop variable, lastError, result
    out,      \* what the handler did to res: response sent, status, body, headers
    unit      \* one application of a pure function of the program: argument, result

vars == <<req, env, pc, timer, queries, agg, context, gen, out, unit>>

-----------------------------------------------------------------------------
(* Bounds of the model *)

MaxMaps == 2      \* entries of NOTION_CLASS_MAP
MaxDone == 1      \* records the task store returns to the done-count query

\* no pure function is being applied: the request handler runs
NoUnit == [fn |-> "none", variant |-> "none", arg |-> <<>>, res |-> <<>>, applied |-> FALSE]

-----------------------------------------------------------------------------
(* The handler variants *)

Variants ==
    { "openrouter",   \* src/api/snark.js
      "mini",         \* src/unnamed/part_000, first file
      "perclass",     \* src/unnamed/part_000, second file
      "gpt5retry",    \* src/unnamed/part_001
      "gpt5",         \* src/unnamed/part_002
      "fallback",     \* src/unnamed/part_003, first file
      "bare",         \* src/unnamed/part_003, second file
      "daily" }       \* src/unnamed/part_004

\* variants that aggregate task-store context before generating
UsesTaskStore(v) == v \notin {"bare", "daily"}

\* variants that read ?debug=1 from req.url
ParsesUrl(v) == v \in {"openrouter", "mini", "gpt5retry", "gpt5", "fallback"}

\* variants whose generator is a retry loop (callOpenRouter / callOpenAI)
Retrying(v) == v \in {"openrouter", "mini", "gpt5retry"}

\* variants that answer a failed generation with an explicit error, no canned line
Strict(v) == v \in {"openrouter", "mini"}

\* the loop bounds of the retry loops
OpenRouterAttempts == 2
OpenAIAttempts == 3

MaxAttempts(v) == IF v = "openrouter" THEN OpenRouterAttempts ELSE OpenAIAttempts

\* variants whose per-class loop body is wrapped in try { } catch {}
GuardedLoop(v) == v # "perclass"

\* the reason string of the missing-credentials short-circuit ("absent": no such field)
MissingReason(v) == IF v = "perclass" THEN "absent" ELSE "missing_notion_env"

-----------------------------------------------------------------------------
(* Task-store records, by the shape of the fields the code reads.          *)
(*  shape: "null" (the array entry is null) or "obj"                       *)
(*  rt:    properties[textProp].rich_text: "absent", "blank" (only white   *)
(*         space), "text", "notarray" (truthy, without .map)               *)
(*  title: properties[TITLE].title, likewise                               *)
(*  due:   properties[DUE]: "absent" (missing, not date-typed, or a null   *)
(*         start), "date" (start "YYYY-MM-DD"), "datetime" (a longer ISO   *)
(*         string), "nonstring" (a truthy start without .slice)            *)

Rec(shape, rt, title, due) == [shape |-> shape, rt |-> rt, title |-> title, due |-> due]

HasDue(rec) == rec.due \in {"date", "datetime", "nonstring"}

\* page => { ... } of fetchContextFromNotion: whether the callback throws
ResolveThrows(rec) ==
    \/ rec.shape = "null"
    \/ rec.rt = "notarray"
    \/ rec.rt # "text" /\ rec.title = "notarray"
    \/ rec.rt # "text" /\ rec.title # "text" /\ rec.due = "nonstring"

\* page => { ... } of fetchContextFromNotion: the item of a record it does not throw on
ResolveItem(rec) ==
    [ name   |-> IF rec.rt = "text" THEN "classtext"
                 ELSE IF rec.title = "text" THEN "title"
                 ELSE IF HasDue(rec) THEN "label assignment (due)"
                 ELSE "label assignment",
      dueIso |-> IF HasDue(rec) THEN rec.due ELSE "null" ]

\* page => { ... } of fetchPerClassPending
ResolveThrowsPerClass(rec) == rec.shape = "null" \/ rec.rt = "notarray"

ResolveItemPerClass(rec) ==
    [ name   |-> IF rec.rt = "text" THEN "classtext" ELSE "Untitled",
      dueIso |-> IF HasDue(rec) THEN rec.due ELSE "null" ]

\* (resp.results || []).map(page => ...): whether it throws, and its value if not
MapThrows(v, results) ==
    \E k \in 1..Len(results) :
        IF v = "perclass" THEN ResolveThrowsPerClass(results[k])
        ELSE ResolveThrows(results[k])

MapItems(v, results) ==
    [ k \in 1..Len(results) |->
        IF v = "perclass" THEN ResolveItemPerClass(results[k])
        ELSE ResolveItem(results[k]) ]

-----------------------------------------------------------------------------
(* The answers of the task store the model draws from *)

RGood   == Rec("obj", "text", "text", "date")
RBlank  == Rec("obj", "blank", "absent", "absent")
RTitled == Rec("obj", "absent", "text", "datetime")
RBadDue == Rec("obj", "text", "absent", "nonstring")
RNull   == Rec("null", "absent", "absent", "absent")

SampleResults ==
    { <<>>, <<RGood>>, <<RBlank>>, <<RBadDue>>, <<RNull>>,
      <<RGood, RNull>>, <<RTitled, RGood, RBlank>> }

\* the parsed body of a pending query: JSON null, an error object, or a list
PendingPayloads ==
    { [object |-> "null", results |-> <<>>], [object |-> "error", results |-> <<>>] }
    \cup { [object |-> "list", results |-> r] : r \in SampleResults }

\* the parsed body of the done-count query; results by their number only
DonePayloads ==
    { [object |-> "null", n |-> 0], [object |-> "error", n |-> 0] }
    \cup { [object |-> "list", n |-> n] : n \in 0..MaxDone }

-----------------------------------------------------------------------------
(* Context formatting (the handler's "Build compact context text") *)

ShownPerClass == 2     \* items.slice(0, 2)

Min(a, b) == IF a <= b THEN a ELSE b

\* it.dueIso.slice(0,10) throws when dueIso is truthy and has no .slice;
\* fetchPerClassPending's handler interpolates it.dueIso without slicing
FormatThrows(v, perClass) ==
    /\ v # "perclass"
    /\ \E c \in 1..Len(perClass) :
         \E k \in 1..Min(ShownPerClass, Len(perClass[c].items)) :
            perClass[c].items[k].dueIso = "nonstring"

RenderItem(v, it) ==
    [ name |-> it.name,
      due  |-> IF it.dueIso = "null" THEN "none"
               ELSE IF v = "perclass" THEN it.dueIso
               ELSE "date" ]

NoContext == [kind |-> "unset", done |-> 0, parts |-> <<>>]

FormatContextNoSentinel(v, perClass, doneApprox) ==
    [ kind |-> "summary", done |-> doneApprox, parts |-> <<>> ]

FormatContext(v, perClass, doneApprox) ==
    IF Len(perClass) = 0
    THEN [kind |-> "sentinel", done |-> 0, parts |-> <<>>]
    ELSE [ kind  |-> "summary",
           done  |-> doneApprox,
           parts |-> [ c \in 1..Len(perClass) |->
                        [ className |-> perClass[c].className,
                          items |-> [ k \in 1..Min(ShownPerClass, Len(perClass[c].items)) |->
                                        RenderItem(v, perClass[c].items[k]) ] ] ] ]

-----------------------------------------------------------------------------
(* The response *)

NoResponse ==
    [ sent |-> 0, status |-> 0, kind |-> "none", line |-> "none", pick |-> 0,
      cache |-> "none", caught |-> FALSE ]

\* the sizes of the canned-line pools
PoolSizeRetry == 4
PoolSizeInline == 3

PoolSize(v) == IF v = "gpt5retry" THEN PoolSizeRetry
               ELSE IF v \in {"gpt5", "fallback"} THEN PoolSizeInline
               ELSE 1

\* the handler's catch block
CatchStatusAlwaysOk(v) == 200

CatchStatus(v) == IF Strict(v) THEN 500 ELSE 200

CatchOutCanned(v, o) ==
    [ sent |-> o.sent + 1, status |-> 200, kind |-> "snark", line |-> "sentinel",
      pick |-> 0, cache |-> "no-store", caught |-> TRUE ]

CatchOut(v, o) ==
    [ sent    |-> o.sent + 1,
      status  |-> CatchStatus(v),
      kind    |-> IF Strict(v) THEN "error" ELSE "snark",
      line    |-> IF Strict(v) THEN "none" ELSE "sentinel",
      pick    |-> 0,
      cache   |-> IF v = "openrouter" THEN "s-maxage=30"
                  ELSE IF v \in {"bare", "daily"} THEN o.cache
                  ELSE "no-store",
      caught  |-> TRUE ]

CannedLineSwapped(hasCtx) == IF hasCtx THEN "canned_noctx" ELSE "canned_ctx"

\* the line a fallback variant substitutes for a missing completion
CannedLine(hasCtx) == IF hasCtx THEN "canned_ctx" ELSE "canned_noctx"

TryCacheNoStore(v) == "no-store"

\* res.setHeader("Cache-Control", ...) of the try block
TryCache(v) ==
    IF v = "openrouter" THEN "s-maxage=600"
    ELSE IF v = "daily" THEN "s-maxage=86400"
    ELSE "no-store"

TryStatusDebugOk(v, debug, remote) ==
    IF Strict(v) /\ ~remote /\ ~debug THEN 500 ELSE 200

\* the status of the try block's response: snark ? 200 : 500 in OpenRouter's
\* debug answer, 200 in the other debug answers, 500 for a strict failure
TryStatus(v, debug, remote) ==
    IF Strict(v) /\ ~remote /\ (v = "openrouter" \/ ~debug) THEN 500 ELSE 200

FallbackPickFirst(v, rnd) == 0

\* pool[Math.floor(Math.random() * pool.length)]: the index drawn, rnd standing
\* for Math.random's value
FallbackPick(v, rnd) == rnd % PoolSize(v)

\* the handler from the generator's result to the end of its try block:
\* snark is "text" (a completion) or "none"; rnd is Math.random's draw
RespondOut(v, debug, snark, hasCtx, rnd) ==
    LET remote == snark = "text" IN
    IF v = "bare"
    THEN [NoResponse EXCEPT !.cache = "no-store"]
    ELSE
    [ sent    |-> 1,
      status  |-> TryStatus(v, debug, remote),
      kind    |-> IF debug /\ ParsesUrl(v) THEN "debug"
                  ELSE IF Strict(v) /\ ~remote THEN "error"
                  ELSE "snark",
      line    |-> IF remote THEN "remote"
                  ELSE IF Strict(v) THEN "none"
                  ELSE IF v = "daily" THEN "canned_noctx"
                  ELSE CannedLine(hasCtx),
      pick    |-> IF remote \/ Strict(v) THEN 0 ELSE FallbackPick(v, rnd),
      cache   |-> TryCache(v),
      caught  |-> FALSE ]

RandomDraws == 0..(PoolSizeRetry - 1)

BodyFieldsFull(v, o) ==
    {"origin", "reason", "raw_error", "model", "context_used", "class_map", "snark"}

\* the fields of the JSON body of response o: the debug object (raw_error is
\* openrouter_error / openai_error), the error object of a strict variant (from
\* the try block or from the catch block), or the remark
BodyFields(v, o) ==
    IF o.kind = "debug"
    THEN {"origin", "reason", "raw_error", "model", "context_used", "class_map", "snark"}
            \cup (IF v \in {"mini", "gpt5retry"} THEN {"openai_attempts"} ELSE {})
    ELSE IF o.kind = "error"
    THEN IF o.caught THEN {"error"} ELSE {"error", "model", "reason", "context_used"}
    ELSE IF o.kind = "snark"
    THEN {"snark"} \cup (IF v \in {"bare", "daily"} THEN {"generated_at"} ELSE {})
    ELSE {}

-----------------------------------------------------------------------------
(* The generation call *)

NoError == [at |-> 0, kind |-> "null"]

\* attempt: the loop variable; calls: fetches issued to the generation service;
\* lastError: the variable of that name (openai_error in the inline variants);
\* hist: the failure of the most recent attempt, as it happened;
\* respOk: resp.ok of the response whose body is being read;
\* arrived: the body of that response once it has been read ("none" before);
\* sleeps: backoff sleeps begun; returned/snark/error/attempts: the result
NoGen ==
    [ attempt |-> 0, calls |-> 0, lastError |-> NoError, hist |-> NoError,
      respOk |-> FALSE, arrived |-> "none", sleeps |-> 0, returned |-> FALSE, snark |-> "none",
      error |-> NoError, attempts |-> 0, hasAttempts |-> FALSE ]

\* the bodies a generation response may carry: a completion with text, a
\* completion whose content is empty or blank, a body that is not JSON, an API
\* error object, a completion whose content is not a string
GenBodies == {"text", "blank", "garbage", "errobj", "badcontent"}

\* lastError = <description of this failure>
RecordError(g, kind) == [at |-> g.attempt + 1, kind |-> kind]

GenSuccessLoopIndex(v, g) ==
    [ g EXCEPT !.returned = TRUE, !.snark = "text", !.error = NoError,
               !.attempts = g.attempt, !.hasAttempts = (v # "openrouter") ]

\* return { snark: out, error: null, attempts: attempt + 1 }
GenSuccess(v, g) ==
    [ g EXCEPT !.returned = TRUE, !.snark = "text", !.error = NoError,
               !.attempts = IF v = "openrouter" THEN 0 ELSE g.attempt + 1,
               !.hasAttempts = (v # "openrouter") ]

\* return { snark: null, error: lastError, attempts: 3 }
GenExhausted(v, g) ==
    [ g EXCEPT !.returned = TRUE, !.snark = "none", !.error = g.lastError,
               !.attempts = IF v = "openrouter" THEN 0 ELSE OpenAIAttempts,
               !.hasAttempts = (v # "openrouter") ]

\* if (!apiKey) return { snark: null, error: "Missing OPENROUTER_API_KEY" }
GenMissingKey(g) ==
    [ g EXCEPT !.returned = TRUE, !.snark = "none",
               !.error = [at |-> 0, kind |-> "missing_key"] ]

LoopContinuesInclusive(v, attempt) == attempt <= MaxAttempts(v)

\* for (...; attempt < N; ...): whether the loop body runs again
LoopContinues(v, attempt) == attempt < MaxAttempts(v)

-----------------------------------------------------------------------------
(* Steps *)

Set(p, t, q, a, c, g, o) ==
    /\ pc' = p /\ timer' = t /\ queries' = q /\ agg' = a
    /\ context' = c /\ gen' = g /\ out' = o
    /\ UNCHANGED <<req, env, unit>>

\* answered: the mappings whose pending query returned a list with at least one
\* record, as it happened
\* doneSeen: how the done-count query settled, as it happened ("threw",
\* "timeout", or the object of the parsed body); kept while the aggregator runs
NoAgg ==
    [ state |-> "idle", idx |-> 0, doneApprox |-> 0, perClass |-> <<>>,
      reason |-> "unset", answered |-> <<>>, doneSeen |-> "none" ]

HasCtx(a) == Len(a.perClass) > 0

\* the handler's catch block: the response of CatchOut, and the handler ends
Catch(a, c, g) == Set("done", "off", queries, a, c, g, CatchOut(req.variant, out))

\* the handler from the generator's result to its return
Respond(a, c, g, rnd) ==
    Set("done", "off", queries, a, c, g,
        RespondOut(req.variant, req.debug, g.snark, HasCtx(a), rnd))

\* fetch(...) of the generation service, raced by withTimeout except in the
\* variants that await the bare fetch
IssueGen(a, c, g) ==
    Set("gen_fetch", IF UsesTaskStore(req.variant) THEN "armed" ELSE "off",
        queries, a, c, [g EXCEPT !.calls = g.calls + 1], out)

StartGenNoKeyCheck(a, c) == IssueGen(a, c, gen)

\* callOpenRouter / callOpenAI up to the first fetch
StartGen(a, c) ==
    IF req.variant = "openrouter" /\ ~env.key
    THEN Respond(a, c, GenMissingKey(gen), 0)
    ELSE IssueGen(a, c, gen)

\* the handler once the aggregator has returned a: formatting, then generation
AfterAgg(a) ==
    IF FormatThrows(req.variant, a.perClass)
    THEN Catch(a, context, gen)
    ELSE StartGen(a, FormatContext(req.variant, a.perClass, a.doneApprox))

\* return { perClass, doneApprox, reason }
AggReturn(a) ==
    AfterAgg([a EXCEPT !.state = "returned", !.doneSeen = "none",
                       !.reason = IF req.variant = "perclass" THEN "absent"
                                  ELSE IF Len(a.perClass) > 0 THEN "ok"
                                  ELSE "notion_empty_or_mismatch"])

\* notionQuery for mapping i, up to its await of fetch
IssuePending(a, i) ==
    Set("pend_fetch", "armed", Append(queries, i), [a EXCEPT !.idx = i],
        context, gen, out)

\* the per-class loop after mapping a.idx: the next mapping, or the return
NextMapping(a) ==
    IF a.idx < env.nMaps THEN IssuePending(a, a.idx + 1) ELSE AggReturn(a)

AggStartUnguarded ==
    LET a == [NoAgg EXCEPT !.state = "running"] IN
    IF env.nMaps > 0
    THEN Set("done_fetch", "armed", Append(queries, 0), a, context, gen, out)
    ELSE NextMapping(a)

\* the aggregator from its first line to its first await
AggStart ==
    LET a == [NoAgg EXCEPT !.state = "running"] IN
    IF ~env.notion
    THEN AfterAgg([a EXCEPT !.state = "returned",
                            !.reason = MissingReason(req.variant)])
    ELSE IF env.nMaps > 0
    THEN Set("done_fetch", "armed", Append(queries, 0), a, context, gen, out)
    ELSE NextMapping(a)

\* the handler is invoked
Start ==
    /\ pc = "start"
    /\ IF UsesTaskStore(req.variant)
       THEN AggStart
       ELSE IssueGen(agg, context, gen)

-----------------------------------------------------------------------------
(* The task store settles: the done-count query *)

DoneFailedRethrows(kind) ==
    Catch([agg EXCEPT !.doneSeen = kind, !.state = "threw"], context, gen)

\* the done-count query throws inside try { ... } catch {} (or its promise is
\* turned into null by .catch(() => null)): doneApprox stays 0 and the per-class
\* loop starts
DoneFailed(kind) == IssuePending([agg EXCEPT !.doneSeen = kind], 1)

\* fetch rejects
DoneFetchRejects ==
    /\ pc = "done_fetch"
    /\ DoneFailed("threw")

\* the withTimeout timer fires first: rejects with Error("timeout")
DoneFetchTimeout ==
    /\ pc = "done_fetch" /\ timer = "armed"
    /\ DoneFailed("timeout")

\* fetch resolves: withTimeout's race is over, res.json() is awaited on its own
DoneFetchResolves ==
    /\ pc = "done_fetch"
    /\ Set("done_body", "off", queries, agg, context, gen, out)

\* res.json() rejects: the body is not JSON
DoneBodyRejects ==
    /\ pc = "done_body"
    /\ DoneFailed("threw")

\* doneApprox = (doneResp.results || []).length unless null or an error object
DoneCount(p) == IF p.object = "list" THEN p.n ELSE 0

DoneBodyResolves ==
    /\ pc = "done_body"
    /\ \E p \in DonePayloads :
        IssuePending([agg EXCEPT !.doneApprox = DoneCount(p),
                                 !.doneSeen = p.object], 1)

-----------------------------------------------------------------------------
(* The task store settles: the pending query of mapping agg.idx *)

PendFetchRejects ==
    /\ pc = "pend_fetch"
    /\ NextMapping(agg)

PendFetchTimeout ==
    /\ pc = "pend_fetch" /\ timer = "armed"
    /\ NextMapping(agg)

PendFetchResolves ==
    /\ pc = "pend_fetch"
    /\ Set("pend_body", "off", queries, agg, context, gen, out)

PendBodyRejects ==
    /\ pc = "pend_body"
    /\ NextMapping(agg)

PushClassAlways(a, items) ==
    [a EXCEPT !.perClass = Append(@, [className |-> a.idx, items |-> items])]

\* if (items.length) perClass.push({ className: textProp, items })
PushClass(a, items) ==
    IF Len(items) > 0
    THEN [a EXCEPT !.perClass = Append(@, [className |-> a.idx, items |-> items])]
    ELSE a

\* the loop body from the parsed body p to the end of the iteration
PendingBody(a, p) ==
    IF p.object # "list"
    THEN NextMapping(a)                      \* continue
    ELSE IF MapThrows(req.variant, p.results)
    THEN IF GuardedLoop(req.variant)
         THEN NextMapping(a)                 \* catch {}
         ELSE Catch([a EXCEPT !.state = "threw"], context, gen)
    ELSE NextMapping(PushClass(a, MapItems(req.variant, p.results)))

PendBodyResolves ==
    /\ pc = "pend_body"
    /\ \E p \in PendingPayloads :
        PendingBody(IF p.object = "list" /\ Len(p.results) > 0
                    THEN [agg EXCEPT !.answered = Append(@, agg.idx)]
                    ELSE agg, p)

-----------------------------------------------------------------------------
(* The generation service settles *)

Inline(v) == v \in {"gpt5", "fallback"}

SetLastErrorKeepFirst(g, kind) ==
    IF g.lastError.kind = "null" THEN [g EXCEPT !.lastError = RecordError(g, kind)] ELSE g

\* lastError = ... (openai_error = ... in the inline variants)
SetLastError(g, kind) == [g EXCEPT !.lastError = RecordError(g, kind)]

Failed(g, kind) == [g EXCEPT !.hist = RecordError(g, kind)]

RetryFailBreakOnEmpty(g, kind) ==
    IF kind = "empty"
    THEN Respond(agg, context,
                 GenExhausted(req.variant, SetLastError(Failed(g, kind), kind)), 0)
    ELSE Set("sleep", "off", queries, agg, context,
             [SetLastError(Failed(g, kind), kind) EXCEPT !.sleeps = @ + 1], out)

\* an attempt of the retry loop failed: lastError, then await sleep(250 * (attempt + 1))
RetryFail(g, kind) ==
    Set("sleep", "off", queries, agg, context,
        [SetLastError(Failed(g, kind), kind) EXCEPT !.sleeps = @ + 1], out)

\* the call threw or timed out
GenThrows(kind, rnd) ==
    LET v == req.variant IN
    IF Retrying(v) THEN RetryFail(gen, kind)
    ELSE IF Inline(v)
    THEN Respond(agg, context,
                 [SetLastError(Failed(gen, kind), kind) EXCEPT !.returned = TRUE], rnd)
    ELSE IF v = "perclass"
    THEN Respond(agg, context, [Failed(gen, kind) EXCEPT !.returned = TRUE], rnd)
    ELSE Catch(agg, context, Failed(gen, kind))

GenFetchRejects ==
    /\ pc = "gen_fetch"
    /\ \E rnd \in RandomDraws : GenThrows("transport", rnd)

GenFetchTimeout ==
    /\ pc = "gen_fetch" /\ timer = "armed"
    /\ \E rnd \in RandomDraws : GenThrows("timeout", rnd)

\* fetch resolves with resp.ok = ok; the body is read outside withTimeout
GenFetchResolves ==
    /\ pc = "gen_fetch"
    /\ \E ok \in BOOLEAN :
        Set("gen_body", "off", queries, agg, context,
            IF Inline(req.variant) /\ ~ok
            THEN [SetLastError(gen, "http") EXCEPT !.respOk = ok, !.arrived = "none"]
            ELSE [gen EXCEPT !.respOk = ok, !.arrived = "none"],
            out)

\* resp.text() / resp.json() rejects
GenBodyRejects ==
    /\ pc = "gen_body"
    /\ \E rnd \in RandomDraws :
        LET v == req.variant IN
        IF Retrying(v) THEN RetryFail(gen, "bodyread")
        ELSE IF Inline(v) \/ v = "perclass"
        THEN Respond(agg, context, [Failed(gen, "bodyread") EXCEPT !.returned = TRUE], rnd)
        ELSE Catch(agg, context, Failed(gen, "bodyread"))

\* the body arrives: the retry loop's handling of it
RetryBody(g, body, rnd) ==
    IF ~g.respOk THEN RetryFail(g, "http")
    ELSE IF body = "garbage" THEN RetryFail(g, "parse")
    ELSE IF body = "badcontent" THEN RetryFail(g, "typeerror")
    ELSE IF body = "text" THEN Respond(agg, context, GenSuccess(req.variant, g), rnd)
    ELSE RetryFail(g, "empty")

\* the body arrives: completion = await resp.json().catch(() => null); snark = ...
InlineBody(g, body, rnd) ==
    IF body = "text"
    THEN Respond(agg, context, [g EXCEPT !.returned = TRUE, !.snark = "text"], rnd)
    ELSE IF body = "errobj"
    THEN Respond(agg, context,
                 [SetLastError(Failed(g, "api_error"), "api_error") EXCEPT !.returned = TRUE], rnd)
    ELSE IF body = "badcontent"
    THEN Respond(agg, context,
                 [SetLastError(Failed(g, "typeerror"), "typeerror") EXCEPT !.returned = TRUE], rnd)
    ELSE Respond(agg, context, [Failed(g, "empty") EXCEPT !.returned = TRUE], rnd)

\* the body arrives: fetch(...).then(r => r.json()), then completion?....trim() || canned
BareBody(g, body, rnd) ==
    IF body = "text"
    THEN Respond(agg, context, [g EXCEPT !.returned = TRUE, !.snark = "text"], rnd)
    ELSE IF body = "badcontent"
    THEN Catch(agg, context, Failed(g, "typeerror"))
    ELSE IF body = "garbage" /\ req.variant # "perclass"
    THEN Catch(agg, context, Failed(g, "parse"))
    ELSE Respond(agg, context, [Failed(g, "empty") EXCEPT !.returned = TRUE], rnd)

GenBodyResolves ==
    /\ pc = "gen_body"
    /\ \E body \in GenBodies, rnd \in RandomDraws :
        LET g == [gen EXCEPT !.arrived = body] IN
        IF Retrying(req.variant) THEN RetryBody(g, body, rnd)
        ELSE IF Inline(req.variant) THEN InlineBody(g, body, rnd)
        ELSE BareBody(g, body, rnd)

\* the backoff sleep ends: attempt++, the loop test, the next fetch or the return
Wake ==
    /\ pc = "sleep"
    /\ \E rnd \in RandomDraws :
        LET g == [gen EXCEPT !.attempt = @ + 1] IN
        IF LoopContinues(req.variant, g.attempt)
        THEN IssueGen(agg, context, g)
        ELSE Respond(agg, context, GenExhausted(req.variant, g), rnd)

-----------------------------------------------------------------------------
(* The specification *)

Init ==
    /\ req \in { r \in [variant : Variants, debug : BOOLEAN] :
                    ~ParsesUrl(r.variant) => ~r.debug }
    /\ env \in { e \in [notion : BOOLEAN, key : BOOLEAN, nMaps : 0..MaxMaps] :
                    /\ ~UsesTaskStore(req.variant) => (~e.notion /\ e.nMaps = 0)
                    /\ req.variant # "openrouter" => e.key }
    /\ pc = "start"
    /\ timer = "off"
    /\ queries = <<>>
    /\ agg = NoAgg
    /\ context = NoContext
    /\ gen = NoGen
    /\ out = NoResponse
    /\ unit = NoUnit

Next ==
    \/ Start
    \/ DoneFetchRejects \/ DoneFetchTimeout \/ DoneFetchResolves
    \/ DoneBodyRejects \/ DoneBodyResolves
    \/ PendFetchRejects \/ PendFetchTimeout \/ PendFetchResolves
    \/ PendBodyRejects \/ PendBodyResolves
    \/ GenFetchRejects \/ GenFetchTimeout \/ GenFetchResolves
    \/ GenBodyRejects \/ GenBodyResolves
    \/ Wake

Spec == Init /\ [][Next]_vars

-----------------------------------------------------------------------------
(* Strings: a string is the sequence of its characters, each a one-character *)
(* string; the String methods the program uses                               *)

RECURSIVE TrimStart(_)
TrimStart(s) == IF Len(s) > 0 /\ Head(s) = " " THEN TrimStart(Tail(s)) ELSE s

RECURSIVE TrimEnd(_)
TrimEnd(s) ==
    IF Len(s) > 0 /\ s[Len(s)] = " " THEN TrimEnd(SubSeq(s, 1, Len(s) - 1)) ELSE s

\* String.prototype.trim
Trim(s) == TrimEnd(TrimStart(s))

\* String.prototype.split(sep), sep one character: "" splits into [""]
RECURSIVE Split(_, _)
Split(s, sep) ==
    IF \A i \in 1..Len(s) : s[i] # sep THEN <<s>>
    ELSE LET i == CHOOSE k \in 1..Len(s) : s[k] = sep /\ \A j \in 1..(k - 1) : s[j] # sep
         IN  <<SubSeq(s, 1, i - 1)>> \o Split(SubSeq(s, i + 1, Len(s)), sep)

\* Array.prototype.join(sep) of an array of strings, sep a string
RECURSIVE Join(_, _)
Join(ss, sep) ==
    IF Len(ss) = 0 THEN <<>>
    ELSE IF Len(ss) = 1 THEN ss[1]
    ELSE ss[1] \o sep \o Join(Tail(ss), sep)

\* s.replace(/_/g, " ")
ReplaceUnderscores(s) == [i \in 1..Len(s) |-> IF s[i] = "_" THEN " " ELSE s[i]]

\* s.slice(0, n)
SliceTo(s, n) == SubSeq(s, 1, Min(n, Len(s)))

-----------------------------------------------------------------------------
(* The class-map parser *)

NonEmpty(s) == Len(s) > 0

\* process.env.NOTION_CLASS_MAP || ""
RawClassMap(e) == IF e.defined THEN e.text ELSE <<>>

\* raw.split(",").map(pair => pair.trim()).filter(Boolean)
Pairs(raw) ==
    LET segs == Split(raw, ",") IN
    SelectSeq([k \in 1..Len(segs) |-> Trim(segs[k])], NonEmpty)

\* pair.split(":").map(s => (s || "").trim())
Sides(pair) ==
    LET parts == Split(pair, ":") IN [k \in 1..Len(parts) |-> Trim(parts[k])]

NullEntry == [null |-> TRUE, checkbox |-> <<>>, textProp |-> <<>>]

\* the callback of parseClassMap's second map: null, or the entry
ParsePair(pair) ==
    LET sides    == Sides(pair)
        checkbox == sides[1]
        textProp == IF Len(sides) >= 2 THEN sides[2] ELSE <<>>    \* undefined
    IN  IF Len(checkbox) = 0 \/ Len(textProp) = 0
        THEN NullEntry
        ELSE [ null     |-> FALSE,
               checkbox |-> ReplaceUnderscores(checkbox),
               textProp |-> ReplaceUnderscores(textProp) ]

NotNull(entry) == ~entry.null

Entry(e) == [checkbox |-> e.checkbox, textProp |-> e.textProp]

\* parseClassMap() of api/snark.js, the same in every variant
parseClassMap(e) ==
    LET pairs   == Pairs(RawClassMap(e))
        entries == SelectSeq([k \in 1..Len(pairs) |-> ParsePair(pairs[k])], NotNull)
    IN  [ threw   |-> FALSE,
          entries |-> [k \in 1..Len(entries) |-> Entry(entries[k])] ]

\* parseMap() of api/debug-pending.js: no test of the two sides, no filter;
\* txt.replace throws when the pair has no colon (txt is undefined)
parseMap(e) ==
    LET pairs == Pairs(RawClassMap(e)) IN
    IF \E k \in 1..Len(pairs) : Len(Sides(pairs[k])) < 2
    THEN [threw |-> TRUE, entries |-> <<>>]
    ELSE [ threw   |-> FALSE,
           entries |-> [ k \in 1..Len(pairs) |->
                           [ checkbox |-> ReplaceUnderscores(Sides(pairs[k])[1]),
                             textProp |-> ReplaceUnderscores(Sides(pairs[k])[2]) ] ] ]

-----------------------------------------------------------------------------
(* Item resolution: the callback of (resp.results || []).map(page => ...)    *)
(*                                                                           *)
(* A page is [shape, rt, title, due].  rt and title are the rich_text and    *)
(* title values of the class-text and title properties: absent, an array of  *)
(* segments (segs: the plain_text of each), or a value that is no array.     *)
(* due is the due property: absent, of another type than "date", or a date   *)
(* whose start is null, a string or a value that is no string.               *)

NullStart == [kind |-> "null", text |-> <<>>]

Assignment == <<" ", "a", "s", "s", "i", "g", "n", "m", "e", "n", "t">>        \* " assignment"

Untitled == <<"U", "n", "t", "i", "t", "l", "e", "d">>

\* whether arr.map(t => t.plain_text) throws: the value has no map method
MapFails(field) == field.tag = "notarray"

\* (value || []).map(t => t.plain_text).join("").trim()
PlainText(field) ==
    IF field.tag = "array" THEN Trim(Join(field.segs, <<>>)) ELSE <<>>

\* due?.type === "date" && due.date?.start
HasStart(due) ==
    /\ due.tag = "date"
    /\ \/ due.start.kind = "nonstring"
       \/ due.start.kind = "string" /\ Len(due.start.text) > 0

dueIsoTruncated(page) ==
    IF HasStart(page.due)
    THEN [kind |-> page.due.start.kind, text |-> SliceTo(page.due.start.text, 10)]
    ELSE NullStart

\* let dueIso = null; if (due?.type === "date" && due.date?.start) dueIso = due.date.start
dueIsoOf(page) == IF HasStart(page.due) THEN page.due.start ELSE NullStart

Threw == [threw |-> TRUE, name |-> <<>>, dueIso |-> NullStart]

Item(name, dueIso) == [threw |-> FALSE, name |-> name, dueIso |-> dueIso]

\* the third tier: the label, " assignment", and the day of the due date if any
LabelName(page, textProp) ==
    IF HasStart(page.due)
    THEN textProp \o Assignment \o <<" ", "(">> \o SliceTo(page.due.start.text, 10) \o <<")">>
    ELSE textProp \o Assignment

resolveTitleFirst(page, textProp) ==
    IF page.shape = "null" \/ MapFails(page.title) THEN Threw
    ELSE IF Len(PlainText(page.title)) > 0
    THEN Item(PlainText(page.title), dueIsoOf(page))
    ELSE IF MapFails(page.rt) THEN Threw
    ELSE IF Len(PlainText(page.rt)) > 0
    THEN Item(PlainText(page.rt), dueIsoOf(page))
    ELSE IF HasStart(page.due) /\ page.due.start.kind = "nonstring" THEN Threw
    ELSE Item(LabelName(page, textProp), dueIsoOf(page))

\* page => { ... } of fetchContextFromNotion; page.properties of null and
\* .map or .slice of a value without the method throw a TypeError
resolve(page, textProp) ==
    IF page.shape = "null" \/ MapFails(page.rt) THEN Threw
    ELSE IF Len(PlainText(page.rt)) > 0
    THEN Item(PlainText(page.rt), dueIsoOf(page))
    ELSE IF MapFails(page.title) THEN Threw
    ELSE IF Len(PlainText(page.title)) > 0
    THEN Item(PlainText(page.title), dueIsoOf(page))
    ELSE IF HasStart(page.due) /\ page.due.start.kind = "nonstring" THEN Threw
    ELSE Item(LabelName(page, textProp), dueIsoOf(page))

\* page => { ... } of fetchPerClassPending
resolvePerClass(page, textProp) ==
    IF page.shape = "null" \/ MapFails(page.rt) THEN Threw
    ELSE Item(IF Len(PlainText(page.rt)) > 0 THEN PlainText(page.rt) ELSE Untitled,
              dueIsoOf(page))

-----------------------------------------------------------------------------
(* The context text, character by character: the handler's "Build compact    *)
(* context text".  ctx is [perClass, doneApprox]; an item is [name, dueIso]   *)
(* with dueIso as the item callback leaves it.                                *)

Arrow == <<"U+2192">>            \* the one character RIGHTWARDS ARROW

\* String(n) of a non-negative integer
RECURSIVE Digits(_)
Digits(n) ==
    LET d == <<"0", "1", "2", "3", "4", "5", "6", "7", "8", "9">>[(n % 10) + 1] IN
    IF n < 10 THEN <<d>> ELSE Digits(n \div 10) \o <<d>>

\* "No pending items found or mapping empty." /
\* "No Notion context or no pending items found."
Sentinel(v) ==
    IF v = "perclass" THEN <<"N", "o", " ", "N", "o", "t", "i", "o", "n", " ", "c", "o", "n", "t", "e", "x", "t", " ", "o", "r", " ", "n", "o", " ", "p", "e", "n", "d", "i", "n", "g", " ", "i", "t", "e", "m", "s", " ", "f", "o", "u", "n", "d", ".">>
    ELSE <<"N", "o", " ", "p", "e", "n", "d", "i", "n", "g", " ", "i", "t", "e", "m", "s", " ", "f", "o", "u", "n", "d", " ", "o", "r", " ", "m", "a", "p", "p", "i", "n", "g", " ", "e", "m", "p", "t", "y", ".">>

\* it.dueIso.slice(0,10) on a dueIso without slice throws
ItemThrows(v, it) == v # "perclass" /\ it.dueIso.kind = "nonstring"

\* it => !it.dueIso ? it.name : `${it.name} (due ${it.dueIso.slice(0,10)})`;
\* fetchPerClassPending's handler interpolates it.dueIso whole
ItemText(v, it) ==
    IF it.dueIso.kind = "null" THEN it.name
    ELSE it.name \o <<" ", "(", "d", "u", "e", " ">>
            \o (IF v = "perclass" THEN it.dueIso.text ELSE SliceTo(it.dueIso.text, 10))
            \o <<")">>

\* `${className}: ${shortList}` with shortList = items.slice(0, 2).map(...).join("; ")
PartText(v, class) ==
    LET shown == SliceTo(class.items, ShownPerClass) IN
    class.className \o <<":", " ">>
        \o Join([k \in 1..Len(shown) |-> ItemText(v, shown[k])], <<";", " ">>)

\* the context text the handler builds from ctx, or the TypeError it throws
ContextText(v, ctx) ==
    IF \E c \in 1..Len(ctx.perClass) :
         \E k \in 1..Min(ShownPerClass, Len(ctx.perClass[c].items)) :
            ItemThrows(v, ctx.perClass[c].items[k])
    THEN [threw |-> TRUE, text |-> <<>>]
    ELSE [ threw |-> FALSE,
           text  |-> IF Len(ctx.perClass) = 0 THEN Sentinel(v)
                     ELSE <<"D", "o", "n", "e", " ", "a", "p", "p", "r", "o", "x", ":", " ">> \o Digits(ctx.doneApprox)
                            \o <<".", " ", "P", "e", "n", "d", "i", "n", "g", " ", "b", "y", " ", "c", "l", "a", "s", "s", " ">> \o Arrow \o <<" ">>
                            \o Join([c \in 1..Len(ctx.perClass) |->
                                        PartText(v, ctx.perClass[c])],
                                    <<" ", "|", " ">>) ]

-----------------------------------------------------------------------------
(* The done count from the task store's answer *)

DonePageSizeDoubled == 100 + 100

DonePageSize == 100              \* page_size: 100

\* the task store's answer to the done-count query when `matching` records
\* match the filter: a list of at most page_size records
StoreAnswer(matching, pageSize) == [object |-> "list", n |-> Min(matching, pageSize)]

\* doneApprox after the done-count query was answered by body
doneApproxOf(body) ==
    DoneCount(IF body.object = "list" THEN StoreAnswer(body.matching, DonePageSize)
              ELSE [object |-> body.object, n |-> 0])

-----------------------------------------------------------------------------
(* The arguments the pure functions are applied to.  The variant of an      *)
(* argument names the copy of the function: "snark" for api/snark.js,        *)
(* "perclass" for fetchPerClassPending and its handler, "debug-pending" for  *)
(* api/debug-pending.js.                                                     *)

MaxSegs == 3          \* comma-separated segments of NOTION_CLASS_MAP
MaxNameLen == 300     \* characters of the longest item name
MaxMatching == 120    \* records matching the done-count filter

\* segments of a class map: well-formed, padded, with underscores, one-sided,
\* empty, with a second colon
Segments ==
    { <<>>,
      <<" ">>,
      <<"E", "v">>,
      <<"E", "v", ":">>,
      <<":", "N", "o">>,
      <<"E", "v", ":", "N", "o">>,
      <<" ", "E", "_", "v", " ", ":", " ", "N", "_", "o", " ">>,
      <<"_", ":", "N", "o">>,
      <<"E", "v", ":", "N", "o", ":", "x">>,
      <<"E", "v", " ", ":", " ", "_">> }

\* the values of NOTION_CLASS_MAP: unset, or up to MaxSegs segments joined by commas
ClassMapValues ==
    { [defined |-> FALSE, text |-> <<>>] } \cup
    { [defined |-> TRUE, text |-> Join(ss, <<",">>)] :
        ss \in UNION { [1..n -> Segments] : n \in 1..MaxSegs } }

\* rich_text / title values: absent, no array, and arrays without text, with
\* blank text, with one segment ("B3") and with two padded segments (" H", "w ")
RichValues ==
    { [tag |-> "absent", segs |-> <<>>],
      [tag |-> "notarray", segs |-> <<>>],
      [tag |-> "array", segs |-> <<>>],
      [tag |-> "array", segs |-> << <<" ">> >>],
      [tag |-> "array", segs |-> << <<"B", "3">> >>],
      [tag |-> "array", segs |-> << <<" ", "H">>, <<"w", " ">> >>] }

Day == <<"2", "0", "2", "5", "-", "0", "1", "-", "0", "2">>                       \* "2025-01-02"

DayTime == Day \o <<"T", "0", "9", ":", "3", "0", "Z">>        \* "2025-01-02T09:30Z"

\* a start that is a number: 7
NumberStart == [kind |-> "nonstring", text |-> <<"7">>]

\* due values: absent, not a date, and dates whose start is null, "", a day, a
\* day with a time, a number
DueValues ==
    { [tag |-> "absent", start |-> NullStart],
      [tag |-> "other", start |-> NullStart],
      [tag |-> "date", start |-> NullStart],
      [tag |-> "date", start |-> [kind |-> "string", text |-> <<>>]],
      [tag |-> "date", start |-> [kind |-> "string", text |-> Day]],
      [tag |-> "date", start |-> [kind |-> "string", text |-> DayTime]],
      [tag |-> "date", start |-> NumberStart] }

\* the elements of resp.results: null, or an object with the three properties
Pages ==
    { [shape |-> "null", rt |-> [tag |-> "absent", segs |-> <<>>],
       title |-> [tag |-> "absent", segs |-> <<>>],
       due |-> [tag |-> "absent", start |-> NullStart]] } \cup
    { [shape |-> "obj", rt |-> r, title |-> t, due |-> d] :
        r \in RichValues, t \in RichValues, d \in DueValues }

Label == <<"N", "o">>                   \* the text property of the mapping: "No"

LongName == [i \in 1..MaxNameLen |-> "x"]

\* the items of a class summary: one to three items, with and without a due
\* date, with a time of day, with a number as start, with long names
ItemLists ==
    { << [name |-> <<"B", "3">>, dueIso |-> NullStart] >>,
      << [name |-> <<"H", "w">>, dueIso |-> [kind |-> "string", text |-> Day]],
         [name |-> <<"B", "3">>, dueIso |-> NullStart] >>,
      << [name |-> <<"B", "3">>, dueIso |-> [kind |-> "string", text |-> DayTime]],
         [name |-> <<"H", "w">>, dueIso |-> [kind |-> "string", text |-> Day]],
         [name |-> <<"Q", "z">>, dueIso |-> NullStart] >>,
      << [name |-> <<"B", "3">>, dueIso |-> NumberStart] >>,
      << [name |-> LongName, dueIso |-> [kind |-> "string", text |-> Day]],
         [name |-> LongName, dueIso |-> NullStart] >> }

ClassLabels == << <<"E", "v">>, <<"N", "o">>, <<"R", "e">>, <<"M", "a">> >>

\* what the aggregator returns: up to MaxMaps classes in mapping order
Contexts ==
    { [ perClass   |-> [c \in 1..n |-> [className |-> ClassLabels[c], items |-> f[c]]],
        doneApprox |-> d ] :
        n \in 0..MaxMaps, f \in [1..MaxMaps -> ItemLists], d \in {0, 7, DonePageSize} }

\* the parsed body of the done-count query and the records matching its filter
DoneBodies == [object : {"list", "null", "error"}, matching : 0..MaxMatching]

\* withTimeout(promise, ms) as it returns: the wrapped call and the timer are
\* pending, and so is the promise of Promise.race that the caller awaits.
\* first (who settled first) and settles (how often the race promise changed
\* state) are history; seen is what the awaiting caller resumed with
RaceInit ==
    [ call |-> "pending", timer |-> "armed", race |-> "pending",
      first |-> "none", settles |-> 0, seen |-> "none" ]

\* the callers that await withTimeout(fetch(...), ms)
CallSites == {"notionQuery", "callOpenRouter", "callOpenAI"}

UnitInputs ==
    { [fn |-> "parseClassMap", variant |-> v, arg |-> a, res |-> <<>>, applied |-> FALSE] :
        v \in {"snark", "debug-pending"}, a \in ClassMapValues } \cup
    { [fn |-> "resolve", variant |-> v, arg |-> [page |-> p, textProp |-> Label],
       res |-> <<>>, applied |-> FALSE] :
        v \in {"snark", "perclass"}, p \in Pages } \cup
    { [fn |-> "format", variant |-> v, arg |-> c, res |-> <<>>, applied |-> FALSE] :
        v \in {"snark", "perclass"}, c \in Contexts } \cup
    { [fn |-> "doneApprox", variant |-> "snark", arg |-> b, res |-> <<>>, applied |-> FALSE] :
        b \in DoneBodies } \cup
    { [fn |-> "fallback", variant |-> v, arg |-> a, res |-> <<>>, applied |-> FALSE] :
        v \in {"gpt5retry", "gpt5", "fallback", "perclass"},
        a \in [hasCtx : BOOLEAN, first : RandomDraws, second : RandomDraws] } \cup
    { [fn |-> "withTimeout", variant |-> v, arg |-> <<>>, res |-> RaceInit,
       applied |-> FALSE] : v \in CallSites }

-----------------------------------------------------------------------------
(* The specification of the pure functions: one argument, one application *)

UnitInit ==
    /\ req = [variant |-> "openrouter", debug |-> FALSE]
    /\ env = [notion |-> FALSE, key |-> FALSE, nMaps |-> 0]
    /\ pc = "unit"
    /\ timer = "off"
    /\ queries = <<>>
    /\ agg = NoAgg
    /\ context = NoContext
    /\ gen = NoGen
    /\ out = NoResponse
    /\ unit \in UnitInputs

\* the function returns (or throws): res is its result
Apply(res) ==
    /\ ~unit.applied
    /\ unit' = [unit EXCEPT !.res = res, !.applied = TRUE]
    /\ UNCHANGED <<req, env, pc, timer, queries, agg, context, gen, out>>

ApplyParse ==
    /\ unit.fn = "parseClassMap"
    /\ Apply(IF unit.variant = "debug-pending" THEN parseMap(unit.arg)
             ELSE parseClassMap(unit.arg))

ApplyResolve ==
    /\ unit.fn = "resolve"
    /\ Apply(IF unit.variant = "perclass"
             THEN resolvePerClass(unit.arg.page, unit.arg.textProp)
             ELSE resolve(unit.arg.page, unit.arg.textProp))

ApplyFormat ==
    /\ unit.fn = "format"
    /\ Apply(ContextText(unit.variant, unit.arg))

ApplyDoneApprox ==
    /\ unit.fn = "doneApprox"
    /\ Apply(doneApproxOf(unit.arg))

\* two runs of a fallback handler from a failed generation to its response,
\* on the same context, with Math.random's draws first and second
ApplyFallback ==
    /\ unit.fn = "fallback"
    /\ Apply([ first  |-> RespondOut(unit.variant, FALSE, "none",
                                     unit.arg.hasCtx, unit.arg.first),
               second |-> RespondOut(unit.variant, FALSE, "none",
                                     unit.arg.hasCtx, unit.arg.second) ])

SettleAgain(r, outcome) ==
    [ r EXCEPT !.race = outcome, !.settles = @ + 1, !.seen = outcome ]

\* one input of Promise.race settles: the race promise takes its outcome if it
\* is still pending, and the caller's await resumes with it; resolving or
\* rejecting a promise that is already settled does nothing
Settle(r, outcome) ==
    IF r.race = "pending"
    THEN [ r EXCEPT !.race = outcome, !.settles = @ + 1, !.seen = outcome ]
    ELSE r

\* the wrapped fetch settles, before or after the timer
CallSettles ==
    /\ unit.fn = "withTimeout" /\ unit.res.call = "pending"
    /\ \E o \in {"fulfilled", "rejected"} :
         unit' = [ unit EXCEPT
                     !.res = Settle([ unit.res EXCEPT
                                        !.call = o,
                                        !.first = IF @ = "none" THEN "call" ELSE @ ], o),
                     !.applied = TRUE ]
    /\ UNCHANGED <<req, env, pc, timer, queries, agg, context, gen, out>>

\* setTimeout's callback runs rej(new Error("timeout")); the timer is never
\* cleared, so it also runs after the call has settled
TimerFires ==
    /\ unit.fn = "withTimeout" /\ unit.res.timer = "armed"
    /\ unit' = [ unit EXCEPT
                    !.res = Settle([ unit.res EXCEPT
                                       !.timer = "fired",
                                       !.first = IF @ = "none" THEN "timer" ELSE @ ],
                                   "timeout"),
                    !.applied = TRUE ]
    /\ UNCHANGED <<req, env, pc, timer, queries, agg, context, gen, out>>

UnitNext ==
    \/ ApplyParse \/ ApplyResolve \/ ApplyFormat \/ ApplyDoneApprox
    \/ ApplyFallback
    \/ CallSettles \/ TimerFires

UnitSpec == UnitInit /\ [][UnitNext]_vars

-----------------------------------------------------------------------------
(* Properties *)

hv == req.variant

TaskStoreAwaits == {"done_fetch", "done_body", "pend_fetch", "pend_body"}
ExternalAwaits == TaskStoreAwaits \cup {"gen_fetch", "gen_body"}

\* C1, as the spec states it: whenever the handler's catch block ran, the
\* response is the fixed safe sentinel remark with status 200.
C1_SentinelAnd200 ==
    out.caught => out.status = 200 /\ out.line = "sentinel"

\* C1, amended: every internal failure inside the try block is caught and
\* answered exactly once; the fallback variants answer with the fixed sentinel
\* remark and status 200, the strict variants (OpenRouter, gpt-4o-mini with
\* retries) with status 500 and an explicit error body that carries no remark.
C1_InternalFailureAnswered ==
    out.caught =>
        /\ pc = "done" /\ out.sent = 1
        /\ IF hv \in {"openrouter", "mini"}
           THEN out.status = 500 /\ out.kind = "error" /\ out.line = "none"
           ELSE out.status = 200 /\ out.kind = "snark" /\ out.line = "sentinel"

\* a formatting failure caught by the handler of part_001, after aggregation returned
C1_Witness ==
    out.caught /\ hv = "gpt5retry" /\ agg.state = "returned" /\ gen.calls = 0

\* C2: when the handler has ended, exactly one response with a non-empty body
\* has been sent.
C2_OneNonEmptyResponse ==
    pc = "done" => out.sent = 1 /\ out.kind # "none"

\* every call of a retrying generator failed and it has returned
AllCallsFailed == Retrying(hv) /\ gen.returned /\ gen.snark = "none" /\ gen.calls > 0

\* C3, as the spec states it: under persistent failure the remote generator
\* makes exactly 3 attempts and returns attempts == 3 and text == null.
C3_ThreeAttempts ==
    AllCallsFailed =>
        gen.calls = 3 /\ gen.hasAttempts /\ gen.attempts = 3 /\ gen.snark = "none"

\* C3, amended: under persistent failure callOpenAI makes exactly 3 attempts
\* and returns attempts == 3 and text == null; callOpenRouter makes exactly 2
\* attempts and returns text == null and no attempts field.
C3_ExhaustedAttempts ==
    AllCallsFailed =>
        IF hv = "openrouter"
        THEN gen.calls = 2 /\ ~gen.hasAttempts /\ gen.snark = "none"
        ELSE gen.calls = 3 /\ gen.hasAttempts /\ gen.attempts = 3 /\ gen.snark = "none"

C3_Witness ==
    AllCallsFailed /\ hv = "mini" /\ gen.calls = 3 /\ gen.attempts = 3 /\ pc = "done"

\* C4, as the spec states it: a failed attempt of any kind never ends the retry
\* loop, and the backoff is followed by a further attempt as long as fewer than
\* 3 attempts have been made.
C4_RetriedBelowThree ==
    [][ Retrying(hv) =>
          /\ gen'.hist # gen.hist => pc' = "sleep" /\ ~gen'.returned
          /\ pc = "sleep" /\ gen.calls < 3 =>
                pc' = "gen_fetch" /\ gen'.calls = gen.calls + 1 ]_vars

\* C4, amended: a failed attempt of any kind never ends the retry loop, and the
\* backoff is followed by a further attempt as long as fewer than the loop's
\* bound of attempts have been made: 3 in callOpenAI, 2 in callOpenRouter.
C4_FailureRetried ==
    [][ Retrying(hv) =>
          /\ gen'.hist # gen.hist => pc' = "sleep" /\ ~gen'.returned
          /\ pc = "sleep" /\ gen.calls < (IF hv = "openrouter" THEN 2 ELSE 3) =>
                pc' = "gen_fetch" /\ gen'.calls = gen.calls + 1 ]_vars

\* a third attempt is under way after an unparsable body failed the second
C4_Witness ==
    Retrying(hv) /\ pc = "gen_fetch" /\ gen.calls = 3
    /\ gen.hist = [at |-> 2, kind |-> "parse"]

\* C5: in callOpenAI the first response that is ok and carries a non-empty
\* completion ends the call: the handler runs to its end without a later
\* attempt, and the result has that text, error = null and attempts equal to
\* the number of calls made so far (1, 2 or 3).
C5_FirstCompletionEndsCall ==
    (hv \in {"mini", "gpt5retry"} /\ gen.respOk /\ gen.arrived = "text") =>
        /\ pc = "done" /\ gen.returned
        /\ gen.snark = "text" /\ gen.error = NoError
        /\ gen.hasAttempts /\ gen.attempts = gen.calls /\ gen.attempts \in 1..3

\* success at the third call, after the second timed out
C5_Witness ==
    hv = "mini" /\ gen.returned /\ gen.snark = "text" /\ gen.attempts = 3
    /\ gen.hist = [at |-> 2, kind |-> "timeout"]

\* C6: the retrying generators never fabricate content: a returned text is the
\* completion of an ok response read in the same call, and when no attempt
\* produced one the text is null and the error is non-null and is the failure
\* of the last attempt made.
C6_NoFabrication ==
    (Retrying(hv) /\ gen.returned) =>
        /\ gen.snark = "text" => gen.respOk /\ gen.arrived = "text"
        /\ gen.snark = "none" =>
              /\ gen.error.kind # "null"
              /\ gen.calls > 0 => gen.error = gen.hist /\ gen.error.at = gen.calls

\* three failed attempts, the last one an empty completion
C6_Witness ==
    Retrying(hv) /\ gen.returned /\ gen.snark = "none"
    /\ gen.error = [at |-> 3, kind |-> "empty"]

\* C7: whenever the handler awaits an external call (a fetch or the reading of
\* a response body) a timeout timer races the awaited promise.
C7_EveryExternalAwaitTimed ==
    pc \in ExternalAwaits => timer = "armed"

\* C8: context aggregation never throws.
C8_AggregationNeverThrows ==
    agg.state # "threw"

\* C9, as the spec states it: with the token or database id absent, aggregation
\* returns {perClass: [], doneApprox: 0, reason: "missing_config"} at once,
\* without any task-store query.
C9_MissingConfigReason ==
    (UsesTaskStore(hv) /\ ~env.notion /\ agg.state # "idle") =>
        /\ agg.state = "returned" /\ queries = <<>> /\ pc \notin TaskStoreAwaits
        /\ agg.perClass = <<>> /\ agg.doneApprox = 0
        /\ agg.reason = "missing_config"

\* C9, amended: with the token or database id absent, aggregation returns
\* perClass = [] and doneApprox = 0 at once, without any task-store query, with
\* reason "missing_notion_env" (fetchPerClassPending returns no reason field).
C9_MissingConfigShortCircuit ==
    (UsesTaskStore(hv) /\ ~env.notion /\ agg.state # "idle") =>
        /\ agg.state = "returned" /\ queries = <<>> /\ pc \notin TaskStoreAwaits
        /\ agg.perClass = <<>> /\ agg.doneApprox = 0
        /\ agg.reason = IF hv = "perclass" THEN "absent" ELSE "missing_notion_env"

\* the short-circuit taken although two classes are mapped; generation is under way
C9_Witness ==
    ~env.notion /\ env.nMaps = 2 /\ agg.state = "returned" /\ pc = "gen_fetch"

ClassNames(perClass) == [c \in 1..Len(perClass) |-> perClass[c].className]

\* C10: when aggregation has ended with credentials present, every mapping has
\* been queried, once and in mapping order, after the done-count query, and
\* perClass holds exactly the classes whose query returned at least one
\* record, in mapping order.
C10_PerClassIsolation ==
    (env.notion /\ agg.state \in {"returned", "threw"}) =>
        /\ queries = IF env.nMaps = 0 THEN <<>>
                     ELSE [k \in 1..(env.nMaps + 1) |-> k - 1]
        /\ ClassNames(agg.perClass) = agg.answered

\* C11: with the task-store credentials present, the aggregator
\* (fetchContextFromNotion) returns reason "ok" exactly when perClass is not
\* empty and "notion_empty_or_mismatch" otherwise; every class summary in
\* perClass holds at least one item.
C11_ReasonMatchesPerClass ==
    /\ (UsesTaskStore(hv) /\ hv # "perclass" /\ env.notion /\ agg.state = "returned") =>
            agg.reason = IF Len(agg.perClass) > 0 THEN "ok"
                         ELSE "notion_empty_or_mismatch"
    /\ \A c \in 1..Len(agg.perClass) : Len(agg.perClass[c].items) > 0

\* two classes mapped, one of them left out of perClass, and the reason is "ok"
C11_Witness ==
    /\ hv = "gpt5retry" /\ env.notion /\ env.nMaps = 2 /\ agg.state = "returned"
    /\ Len(agg.perClass) = 1 /\ agg.reason = "ok"

DoneFailures == {"threw", "timeout", "null", "error"}

\* C12: with an empty mapping list no done-count query is issued and the done
\* count is 0; when the done-count query throws, times out or answers null or
\* an error object, the done count is 0 and the aggregator goes on: the pending
\* query of the first mapping is the next query issued.
C12_DoneCountDefaults ==
    /\ (env.nMaps = 0 /\ agg.state # "idle") =>
            /\ agg.doneApprox = 0
            /\ \A k \in 1..Len(queries) : queries[k] # 0
            /\ pc \notin {"done_fetch", "done_body"}
    /\ agg.doneSeen \in DoneFailures =>
            /\ agg.doneApprox = 0
            /\ Len(queries) >= 2 /\ queries[1] = 0 /\ queries[2] = 1

\* the done-count query timed out, and the class queried after it is in perClass
C12_Witness ==
    /\ agg.doneSeen = "timeout" /\ agg.doneApprox = 0
    /\ Len(agg.perClass) > 0 /\ pc = "pend_fetch"

Parsed == unit.fn = "parseClassMap" /\ unit.applied

Commas(s) == Cardinality({ i \in 1..Len(s) : s[i] = "," })

HasUnderscore(s) == \E i \in 1..Len(s) : s[i] = "_"

\* C17: the class-map parser returns at most as many entries as the mapping
\* string has comma-separated segments, and in every returned entry the
\* checkbox field and the text field are non-empty after trimming and hold no
\* underscore.
C17_ParsedEntriesWellFormed ==
    (Parsed /\ ~unit.res.threw) =>
        /\ Len(unit.res.entries) <= Commas(RawClassMap(unit.arg)) + 1
        /\ \A k \in 1..Len(unit.res.entries) :
              LET e == unit.res.entries[k] IN
              /\ Len(Trim(e.checkbox)) > 0 /\ Len(Trim(e.textProp)) > 0
              /\ ~HasUnderscore(e.checkbox) /\ ~HasUnderscore(e.textProp)

\* a segment with a colon and a non-blank text on each side of it
BothSides(seg) ==
    LET sides == Sides(Trim(seg)) IN
    Len(sides) >= 2 /\ Len(sides[1]) > 0 /\ Len(sides[2]) > 0

\* C18: the class-map parser does not throw; its result holds one entry for
\* each comma-separated segment that has both sides of the colon, in the order
\* of the segments, duplicates included, and nothing else: no entry at all for
\* an unset, empty, blank or colon-less string.
C18_ParserNeverFails ==
    Parsed =>
        /\ ~unit.res.threw
        /\ LET segs == Split(RawClassMap(unit.arg), ",")
               kept == { k \in 1..Len(segs) : BothSides(segs[k]) }
           IN  /\ Len(unit.res.entries) = Cardinality(kept)
               /\ \A k \in kept :
                     unit.res.entries[Cardinality({ j \in kept : j <= k })] =
                        [ checkbox |-> ReplaceUnderscores(Sides(Trim(segs[k]))[1]),
                          textProp |-> ReplaceUnderscores(Sides(Trim(segs[k]))[2]) ]

Resolved == unit.fn = "resolve" /\ unit.applied

\* C14: item resolution does not fail, whatever the record, and the name of
\* the item it yields is not empty.
C14_ResolutionTotal ==
    Resolved => (~unit.res.threw /\ Len(unit.res.name) > 0)

\* the trimmed text of a rich_text or title value, empty when there is none
TextOf(field) == IF field.tag = "array" THEN Trim(Join(field.segs, <<>>)) ELSE <<>>

\* C15: the name of a resolved item is the trimmed class text if that is not
\* empty; else the trimmed title if that is not empty; else the label followed
\* by " assignment", or by " assignment (<due date>)" exactly when the record
\* has a due date (a date with a start; the day of it is shown).
C15_ThreeTierName ==
    (Resolved /\ ~unit.res.threw) =>
        LET page == unit.arg.page IN
        unit.res.name =
            IF Len(TextOf(page.rt)) > 0 THEN TextOf(page.rt)
            ELSE IF Len(TextOf(page.title)) > 0 THEN TextOf(page.title)
            ELSE IF page.due.tag = "date" /\ Len(page.due.start.text) > 0
            THEN unit.arg.textProp \o Assignment \o <<" ", "(">>
                    \o SliceTo(page.due.start.text, 10) \o <<")">>
            ELSE unit.arg.textProp \o Assignment

\* C15, amended: in fetchContextFromNotion the name of a resolved item is the
\* trimmed class text if not empty; else the trimmed title if not empty; else
\* the label followed by " assignment (", the first 10 characters of the due
\* start and ")" when the due property is a date with a non-empty start, and by
\* " assignment" otherwise.  In fetchPerClassPending there is no title tier and
\* no label tier: the name is the trimmed class text if not empty, else
\* "Untitled".
C15_NameTiers ==
    (Resolved /\ ~unit.res.threw) =>
        LET page  == unit.arg.page
            start == page.due.start
        IN  unit.res.name =
            IF Len(TextOf(page.rt)) > 0 THEN TextOf(page.rt)
            ELSE IF unit.variant = "perclass" THEN Untitled
            ELSE IF Len(TextOf(page.title)) > 0 THEN TextOf(page.title)
            ELSE IF page.due.tag = "date" /\ start.kind = "string" /\ Len(start.text) > 0
            THEN unit.arg.textProp \o Assignment \o <<" ", "(">>
                    \o SliceTo(start.text, 10) \o <<")">>
            ELSE unit.arg.textProp \o Assignment

\* the third tier with a due date: class text blank, title absent, start a day with a time
C15_Witness ==
    /\ Resolved /\ unit.variant = "snark" /\ ~unit.res.threw
    /\ unit.arg.page.rt.segs = << <<" ">> >> /\ unit.arg.page.title.tag = "absent"
    /\ unit.arg.page.due.start.text = DayTime
    /\ unit.res.name = Label \o Assignment \o <<" ", "(">> \o Day \o <<")">>

\* C16: the due date of a resolved item is present exactly when the due
\* property is a date with a start that is not null, and it is then the first
\* 10 characters (YYYY-MM-DD) of that start.
C16_DueTruncated ==
    (Resolved /\ ~unit.res.threw) =>
        LET due == unit.arg.page.due IN
        /\ unit.res.dueIso.kind # "null" <=> (due.tag = "date" /\ due.start.kind # "null")
        /\ unit.res.dueIso.kind = "string" =>
                unit.res.dueIso.text = SliceTo(due.start.text, 10)

\* C16, amended: the due date of a resolved item is present exactly when the
\* due property is a date with a start that is neither null nor the empty
\* string, and it is then that start as the task store gave it, not truncated.
C16_DueAsStored ==
    (Resolved /\ ~unit.res.threw) =>
        LET due == unit.arg.page.due IN
        /\ unit.res.dueIso.kind # "null" <=>
                /\ due.tag = "date"
                /\ due.start.kind # "null"
                /\ due.start # [kind |-> "string", text |-> <<>>]
        /\ unit.res.dueIso.kind # "null" => unit.res.dueIso = due.start

\* a start with a time of day is kept whole in the item
C16_Witness ==
    /\ Resolved /\ ~unit.res.threw
    /\ unit.arg.page.due.start.text = DayTime
    /\ unit.res.dueIso = [kind |-> "string", text |-> DayTime]

Formatted == unit.fn = "format" /\ unit.applied /\ ~unit.res.threw

\* C19: the context text has at most 500 characters, whatever the number of
\* classes and items and the length of their names.
C19_ContextBounded ==
    Formatted => Len(unit.res.text) <= 500

\* C20: the context text is, for a non-empty perClass, "Done approx: <n>.
\* Pending by class -> " followed by the classes in perClass order joined by
\* " | ", each as "<class>: " and its first 2 items in order joined by "; ",
\* an item being its name, or "<name> (due YYYY-MM-DD)" when it has a due
\* date; for an empty perClass it is the fixed sentinel and nothing else.
C20_Rendering ==
    Formatted =>
        LET ctx == unit.arg
            Shown(c) == SubSeq(ctx.perClass[c].items, 1,
                               Min(2, Len(ctx.perClass[c].items)))
            Due(it) == <<" ", "(", "d", "u", "e", " ">>
                         \o SubSeq(it.dueIso.text, 1, Min(10, Len(it.dueIso.text)))
                         \o <<")">>
            Shows(it) == IF it.dueIso.kind = "null" THEN it.name
                         ELSE it.name \o Due(it)
            Class(c) == ctx.perClass[c].className \o <<":", " ">>
                          \o Join([k \in 1..Len(Shown(c)) |-> Shows(Shown(c)[k])],
                                  <<";", " ">>)
        IN  IF Len(ctx.perClass) = 0
            THEN unit.res.text = Sentinel(unit.variant)
            ELSE unit.res.text =
                    <<"D", "o", "n", "e", " ", "a", "p", "p", "r", "o", "x", ":", " ">>
                    \o Digits(ctx.doneApprox)
                    \o <<".", " ", "P", "e", "n", "d", "i", "n", "g", " ", "b", "y",
                         " ", "c", "l", "a", "s", "s", " ">> \o Arrow \o <<" ">>
                    \o Join([c \in 1..Len(ctx.perClass) |-> Class(c)],
                            <<" ", "|", " ">>)

\* the diagnostic fields of a response body
Diagnostics ==
    {"origin", "reason", "raw_error", "error", "context_used", "class_map", "model",
     "openai_attempts"}

\* C21: a response to a request without ?debug=1 carries no diagnostic field,
\* and the debug object is sent only when ?debug=1 was requested.
C21_DiagnosticsOnlyInDebug ==
    (out.sent > 0 /\ ~req.debug) =>
        /\ out.kind # "debug"
        /\ BodyFields(hv, out) \cap Diagnostics = {}

\* C21, amended: the debug object (with origin, class_map, the raw error and
\* the attempts) is sent only when ?debug=1 was requested; without it a
\* response that carries a remark carries nothing else (but generated_at in the
\* variants without task store), and the only other response is the error
\* object of a strict variant, with status 500: error alone from the catch
\* block, error, model, reason and context_used after a failed generation.
C21_DebugByRequest ==
    out.sent > 0 =>
        /\ out.kind = "debug" => req.debug
        /\ ~req.debug =>
            /\ BodyFields(hv, out) \cap {"origin", "class_map", "raw_error", "openai_attempts"} = {}
            /\ out.kind = "snark" => BodyFields(hv, out) \subseteq {"snark", "generated_at"}
            /\ out.kind # "snark" =>
                    /\ Strict(hv) /\ out.status = 500 /\ out.kind = "error"
                    /\ BodyFields(hv, out) = IF out.caught THEN {"error"}
                                             ELSE {"error", "model", "reason", "context_used"}

\* generation failed in a strict variant, no debug: the error object with the context
C21_Witness ==
    /\ ~req.debug /\ out.sent = 1 /\ out.kind = "error" /\ ~out.caught
    /\ "context_used" \in BodyFields(hv, out) /\ agg.reason = "ok"

GenFailed == gen.returned /\ gen.snark = "none"

\* C23: status 500 is answered only when remote generation explicitly failed
\* in a strict variant; every other outcome, an internal failure caught by the
\* handler included, is answered with status 200.
C23_Only500OnStrictFailure ==
    out.sent > 0 =>
        /\ out.status \in {200, 500}
        /\ out.status = 500 => Strict(hv) /\ GenFailed /\ ~out.caught
        /\ (out.caught \/ ~Strict(hv) \/ gen.snark = "text") => out.status = 200

\* C23, amended: status 500 is answered exactly by the strict variants, when
\* the handler's catch block answers an internal failure, and when generation
\* failed and the request is not a debug request of the gpt-4o-mini handler
\* (OpenRouter's debug answer has status 500 on failure, gpt-4o-mini's has
\* 200); every other response has status 200.
C23_StatusByOutcome ==
    out.sent > 0 =>
        /\ out.status \in {200, 500}
        /\ out.status = 500 <=>
                /\ Strict(hv)
                /\ \/ out.caught
                   \/ GenFailed /\ (hv = "openrouter" \/ ~req.debug)

\* the OpenRouter handler answers 500 from its catch block before any
\* generation call
C23_Witness ==
    hv = "openrouter" /\ out.caught /\ out.status = 500 /\ ~gen.returned
    /\ gen.calls = 0 /\ out.sent = 1

\* C24: in the strict variants a response never carries a canned line: it
\* carries a remark only if the generation service returned that text in an
\* ok response of this request, and when generation failed the response
\* carries no remark and names the error.
C24_StrictNeverCanned ==
    (Strict(hv) /\ out.sent > 0) =>
        /\ out.line \in {"remote", "none"}
        /\ out.line = "remote" =>
                /\ gen.returned /\ gen.snark = "text"
                /\ gen.calls > 0 /\ gen.respOk /\ gen.arrived = "text"
        /\ (GenFailed \/ out.caught) =>
                /\ out.line = "none"
                /\ out.kind \in {"error", "debug"}
                /\ BodyFields(hv, out) \cap {"error", "raw_error"} # {}

\* every call of the gpt-4o-mini generator failed, and the handler answered
\* with the error and no remark
C24_Witness ==
    /\ hv = "mini" /\ ~req.debug /\ GenFailed /\ gen.calls = 3
    /\ out.sent = 1 /\ out.kind = "error" /\ out.line = "none"

\* the handler of a task-store variant has ended without credentials
EndedWithoutCredentials == UsesTaskStore(hv) /\ ~env.notion /\ pc = "done"

\* C25: with no task-store credentials the aggregation short-circuits to
\* reason = missing_config, the formatter emits the no-pending-items sentinel,
\* and the request is still answered with a non-empty remark, also when the
\* generation service is unavailable.
C25_RemarkWithoutConfig ==
    EndedWithoutCredentials =>
        /\ queries = <<>> /\ agg.state = "returned" /\ agg.perClass = <<>>
        /\ agg.reason = "missing_config"
        /\ context.kind = "sentinel"
        /\ out.sent = 1 /\ out.status = 200 /\ out.line # "none"

\* C25, amended: with no task-store credentials the aggregation returns at
\* once, without a query, with perClass empty and reason = missing_notion_env
\* (no reason field in fetchPerClassPending); the formatter emits the
\* no-pending-items sentinel; the fallback variants answer with status 200 and
\* a non-empty remark, remote or local, whatever the generation service does;
\* the strict variants answer with the remote remark, or with no remark when
\* generation failed (status 500; 200 for a debug request to gpt-4o-mini).
C25_EndToEndWithoutConfig ==
    EndedWithoutCredentials =>
        /\ queries = <<>> /\ agg.state = "returned" /\ agg.perClass = <<>>
        /\ agg.doneApprox = 0
        /\ agg.reason = IF hv = "perclass" THEN "absent" ELSE "missing_notion_env"
        /\ context.kind = "sentinel"
        /\ out.sent = 1
        /\ IF Strict(hv)
           THEN IF gen.snark = "text"
                THEN out.status = 200 /\ out.line = "remote"
                ELSE /\ GenFailed /\ out.line = "none"
                     /\ out.status = IF hv = "mini" /\ req.debug THEN 200 ELSE 500
           ELSE /\ out.status = 200
                /\ out.line \in {"remote", "canned_noctx", "sentinel"}
                /\ out.line = "remote" <=> gen.snark = "text"

\* without credentials and with every generation call failed, the handler of
\* part_001 answers with a line of the empty-context pool
C25_Witness ==
    /\ EndedWithoutCredentials /\ hv = "gpt5retry" /\ GenFailed /\ gen.calls = 3
    /\ context.kind = "sentinel" /\ out.line = "canned_noctx" /\ out.status = 200

\* the task store was queried and no class kept an item
ZeroItems == UsesTaskStore(hv) /\ env.notion /\ agg.state = "returned" /\ agg.perClass = <<>>

\* the try block answered with a line of one of the handler's pools
PoolLine == out.sent > 0 /\ ~out.caught /\ out.line \in {"canned_ctx", "canned_noctx"}

LocalRuns == unit.fn = "fallback" /\ unit.applied

AllQueries(n) == IF n = 0 THEN <<>> ELSE [k \in 1..(n + 1) |-> k - 1]

\* C28: the external calls of a request are strictly ordered: the queries
\* issued so far are the done-count query followed by the pending queries in
\* mapping order, one call is awaited at a time, a generation call starts only
\* after every task-store query, a request that ends with configuration
\* present and n >= 1 mappings has issued exactly the done-count query and n
\* pending queries, and with zero mappings it has issued none.
C28_CallsStrictlyOrdered ==
    /\ Len(queries) <= Len(AllQueries(env.nMaps))
    /\ \A k \in 1..Len(queries) : queries[k] = k - 1
    /\ ~env.notion => queries = <<>>
    /\ pc \in TaskStoreAwaits =>
            /\ gen.calls = 0 /\ queries # <<>>
            /\ queries[Len(queries)] = agg.idx
            /\ pc \in {"done_fetch", "done_body"} <=> Len(queries) = 1
    /\ gen.calls > 0 =>
            /\ pc \notin TaskStoreAwaits
            /\ env.notion => queries = AllQueries(env.nMaps)
    /\ (pc = "done" /\ env.notion) => queries = AllQueries(env.nMaps)

\* a call wrapped by withTimeout, once the call or the timer has settled
Raced == unit.fn = "withTimeout" /\ unit.applied

NoApiKey == hv = "openrouter" /\ ~env.key

\* C30: in the OpenRouter variant without an API key the generator returns
\* text = null with the error "Missing OPENROUTER_API_KEY", without a network
\* call and without a backoff wait, and the handler answers with status 500
\* and no remark, after the task-store aggregation has been performed.
C30_MissingKeyReported ==
    NoApiKey =>
        /\ gen.calls = 0 /\ gen.sleeps = 0
        /\ pc \notin {"gen_fetch", "gen_body", "sleep"}
        /\ gen.returned =>
                /\ gen.snark = "none" /\ gen.error = [at |-> 0, kind |-> "missing_key"]
                /\ agg.state = "returned"
                /\ env.notion => queries = AllQueries(env.nMaps)
                /\ pc = "done" /\ out.sent = 1 /\ ~out.caught
                /\ out.status = 500 /\ out.line = "none"
                /\ out.kind = IF req.debug THEN "debug" ELSE "error"
        /\ (pc = "done" /\ ~out.caught) => gen.returned

\* no API key, two classes queried and kept, and the failure is reported
C30_Witness ==
    /\ NoApiKey /\ env.notion /\ env.nMaps = 2 /\ queries = <<0, 1, 2>>
    /\ Len(agg.perClass) = 2 /\ gen.returned /\ gen.error.kind = "missing_key"
    /\ out.sent = 1 /\ out.status = 500 /\ out.kind = "error"

====
